---- MODULE Spec2Model ----
(***************************************************************************)
(* A model of src/src/archive/transforms.py: the dataset transforms        *)
(* (RenameDimensions, DropZeroDimensions, StandardizeSignalDataset,        *)
(* TensorizeChannels), the collection transforms MergeDatasets and         *)
(* DropDatasets, the collection mapper MapDict and the Pipeline executor.  *)
(*                                                                         *)
(* Strings are sequences of one-character strings, so that formatting,     *)
(* regular-expression matching and int() are computed, not assumed.        *)
(* Every component has one record variable holding its input, its loop     *)
(* position (pc) and its result; a component that a specification does not *)
(* exercise stays Idle.                                                    *)
(***************************************************************************)
EXTENDS Integers, Sequences, FiniteSets, TLC

VARIABLES tc, md, pl, ss, rd, dz, mg, dd

vars == <<tc, md, pl, ss, rd, dz, mg, dd>>

Idle == [pc |-> "idle"]

(***************************************************************************)
(* Bounds of the model.                                                    *)
(***************************************************************************)
MaxVars == 3        \* data variables of a dataset given to TensorizeChannels
MaxKeys == 3        \* entries of a collection given to MapDict
MaxTransforms == 3  \* transforms of a Pipeline
MaxLen == 2         \* values along an axis (error, coordinate arrays)
MaxDims == 2        \* axes of a dataset given to RenameDimensions
MaxSize == 2        \* size of an axis of a dataset given to RenameDimensions
MaxMerge == 2       \* datasets of a collection given to MergeDatasets
MaxDrop == 2        \* keys listed in a DropDatasets

(***************************************************************************)
(* Strings.                                                                *)
(***************************************************************************)
DigitChars == {"0", "1", "2", "3", "4", "5", "6", "7", "8", "9"}

\* ord(c) for the characters the model's names are written in.
ord(c) ==
  CASE c = " " -> 32 [] c = "/" -> 47
    [] c = "0" -> 48 [] c = "1" -> 49 [] c = "2" -> 50 [] c = "3" -> 51
    [] c = "4" -> 52 [] c = "5" -> 53 [] c = "6" -> 54 [] c = "7" -> 55
    [] c = "8" -> 56 [] c = "9" -> 57 [] c = ":" -> 58 [] c = "_" -> 95
    [] c = "a" -> 97 [] c = "b" -> 98 [] c = "c" -> 99 [] c = "d" -> 100
    [] c = "e" -> 101 [] c = "f" -> 102 [] c = "g" -> 103 [] c = "h" -> 104
    [] c = "i" -> 105 [] c = "k" -> 107 [] c = "l" -> 108 [] c = "m" -> 109
    [] c = "n" -> 110 [] c = "o" -> 111 [] c = "r" -> 114 [] c = "s" -> 115
    [] c = "t" -> 116 [] c = "x" -> 120 [] c = "y" -> 121 [] c = "z" -> 122

\* str.isdigit(): non-empty and every character a digit.
isdigit(s) == Len(s) > 0 /\ \A i \in 1..Len(s) : s[i] \in DigitChars

\* int(s) of a digit string: leading zeros do not count.
RECURSIVE int(_)
int(s) ==
  IF Len(s) = 0 THEN 0
  ELSE 10 * int(SubSeq(s, 1, Len(s) - 1)) + (ord(s[Len(s)]) - 48)

\* s < t on Python strings: lexicographic by code point, a proper prefix first.
StrLess(s, t) ==
  \E k \in 1..(Len(t)) :
     /\ \A j \in 1..(k - 1) : j <= Len(s) /\ s[j] = t[j]
     /\ \/ k = Len(s) + 1
        \/ k <= Len(s) /\ ord(s[k]) < ord(t[k])

\* `sub in s` on Python strings.
Contains(s, sub) ==
  \E i \in 0..(Len(s) - Len(sub)) : SubSeq(s, i + 1, i + Len(sub)) = sub

SeqRange(s) == {s[i] : i \in 1..Len(s)}

\* The sequences over S of length n, and of length at most n, without repeats.
RECURSIVE DistinctSeqs(_, _)
DistinctSeqs(S, n) ==
  IF n = 0 THEN {<<>>}
  ELSE LET shorter == DistinctSeqs(S, n - 1)
       IN  shorter \cup
           {Append(q, e) : <<q, e>> \in
              {p \in shorter \X S : Len(p[1]) = n - 1 /\ p[2] \notin SeqRange(p[1])}}

(***************************************************************************)
(* TensorizeChannels.  A dataset is its data variables in the order of the *)
(* dataset's mapping (insertion order): a sequence of [name, values], the  *)
(* names distinct.  An array is its axis names and its values in row-major  *)
(* order; the variables of a dataset share their axes and shape.           *)
(***************************************************************************)
stem == <<"x">>

\* TensorizeChannels.__init__: dim_name defaults to f"{stem}_channel".
dim_name == stem \o <<"_", "c", "h", "a", "n", "n", "e", "l">>

\* The default regex stem + "(\d+)" matches at position i of s.
MatchAt(s, i) ==
  /\ i + Len(stem) <= Len(s)
  /\ \A k \in 1..Len(stem) : s[i + k - 1] = stem[k]
  /\ s[i + Len(stem)] \in DigitChars

\* The end of the greedy \d+ that starts at position j.
DigitRunEnd(s, j) ==
  CHOOSE e \in j..Len(s) :
     /\ \A k \in j..e : s[k] \in DigitChars
     /\ e = Len(s) \/ s[e + 1] \notin DigitChars

\* re.search(self.regex, key) is not None
re_search(s) == \E i \in 1..Len(s) : MatchAt(s, i)

\* re.split(self.regex, s): the literal fragments between the leftmost
\* non-overlapping matches, alternating with the captured digit groups.
RECURSIVE re_split_from(_, _, _)
re_split_from(s, i, lit) ==
  IF i > Len(s) THEN <<SubSeq(s, lit, Len(s))>>
  ELSE IF MatchAt(s, i)
       THEN LET j == i + Len(stem)
                e == DigitRunEnd(s, j)
            IN  <<SubSeq(s, lit, i - 1), SubSeq(s, j, e)>>
                  \o re_split_from(s, e + 1, e + 1)
       ELSE re_split_from(s, i + 1, lit)

re_split(s) == re_split_from(s, 1, 1)

IntPart(n) == [isInt |-> TRUE, n |-> n, s |-> <<>>]
StrPart(s) == [isInt |-> FALSE, n |-> 0, s |-> s]

\* TensorizeChannels._parse_digits
ParseDigits(s) ==
  LET parts == re_split(s)
  IN  [k \in 1..Len(parts) |->
         IF isdigit(parts[k]) THEN IntPart(int(parts[k])) ELSE StrPart(parts[k])]

\* The first index at which two key lists differ (0: one is a prefix of the other).
FirstDiff(a, b) ==
  LET m == IF Len(a) < Len(b) THEN Len(a) ELSE Len(b)
      D == {k \in 1..m : a[k] # b[k]}
  IN  IF D = {} THEN 0 ELSE CHOOSE k \in D : \A j \in D : k <= j

\* Python's a < b on the key lists raises TypeError when the first differing
\* elements are an int and a str.
Comparable(a, b) ==
  LET k == FirstDiff(a, b) IN k = 0 \/ a[k].isInt = b[k].isInt

\* Python's a < b on two comparable key lists.
KeyLess(a, b) ==
  LET k == FirstDiff(a, b)
  IN  IF k = 0 THEN Len(a) < Len(b)
      ELSE IF a[k].isInt THEN a[k].n < b[k].n ELSE StrLess(a[k].s, b[k].s)

\* One step of a stable sort: x goes behind every element that is not greater.
RECURSIVE InsertStable(_, _)
InsertStable(sorted, x) ==
  IF Len(sorted) = 0 THEN <<x>>
  ELSE LET last == sorted[Len(sorted)]
       IN  IF KeyLess(ParseDigits(x), ParseDigits(last))
           THEN Append(InsertStable(SubSeq(sorted, 1, Len(sorted) - 1), x), last)
           ELSE Append(sorted, x)

RECURSIVE StableSort(_)
StableSort(strings) ==
  IF Len(strings) = 0 THEN <<>>
  ELSE InsertStable(StableSort(SubSeq(strings, 1, Len(strings) - 1)),
                    strings[Len(strings)])

\* TensorizeChannels._sort_numerically: sorted(strings, key=_parse_digits).
\* sorted() is stable.  A comparison sort compares every two elements that end
\* up next to each other, and only the first fragment of a key can be an int in
\* one key and a str in another, so sorted() raises TypeError exactly when the
\* list holds two keys that are not comparable.
SortNumerically(strings) ==
  IF \E i, j \in 1..Len(strings) :
        ~Comparable(ParseDigits(strings[i]), ParseDigits(strings[j]))
  THEN [ok |-> FALSE, error |-> "TypeError", keys |-> <<>>]
  ELSE [ok |-> TRUE, error |-> "", keys |-> StableSort(strings)]

\* TensorizeChannels._get_group_keys
GetGroupKeys(data_vars) ==
  LET names == [k \in 1..Len(data_vars) |-> data_vars[k].name]
      Matches(key) == re_search(key)
  IN  SortNumerically(SelectSeq(names, Matches))

ValuesOf(data_vars, key) ==
  LET k == CHOOSE i \in 1..Len(data_vars) : data_vars[i].name = key
  IN  data_vars[k].values

HasVar(data_vars, key) == \E i \in 1..Len(data_vars) : data_vars[i].name = key

\* dataset[key] = value: an existing variable keeps its place, a new one is
\* appended.
SetItem(data_vars, key, value) ==
  IF HasVar(data_vars, key)
  THEN [k \in 1..Len(data_vars) |->
          IF data_vars[k].name = key THEN [name |-> key, values |-> value]
          ELSE data_vars[k]]
  ELSE Append(data_vars, [name |-> key, values |-> value])

\* A plausible slip: the first of the keys is not dropped.
DropVarsButFirst(data_vars, keys) ==
  LET Kept(v) == v.name \notin SeqRange(keys) \/ (Len(keys) > 0 /\ v.name = keys[1])
  IN  SelectSeq(data_vars, Kept)

\* dataset.drop_vars(keys)
DropVars(data_vars, keys) ==
  LET Kept(v) == v.name \notin SeqRange(keys)
  IN  SelectSeq(data_vars, Kept)

RECURSIVE Flatten(_)
Flatten(arrays) ==
  IF Len(arrays) = 0 THEN <<>>
  ELSE Flatten(SubSeq(arrays, 1, Len(arrays) - 1)) \o arrays[Len(arrays)].data

\* array.isel({axis: i - 1}) for the first axis of an array with n slices.
Slice(array, n, i) ==
  LET size == Len(array.data) \div n
  IN  [dims |-> Tail(array.dims),
       data |-> SubSeq(array.data, (i - 1) * size + 1, i * size)]

\* A plausible slip: the channels stacked in the reverse order.
CombineNestedReversed(channels) ==
  [dims |-> <<dim_name>> \o channels[1].dims,
   data |-> Flatten([k \in 1..Len(channels) |-> channels[Len(channels) + 1 - k]])]

\* xr.combine_nested(channels, concat_dim=dim_name): the arrays stacked along a
\* new axis, in the order of the list.
CombineNested(channels) ==
  [dims |-> <<dim_name>> \o channels[1].dims, data |-> Flatten(channels)]

\* TensorizeChannels.__call__.  combine_nested of an empty list is an empty
\* Dataset, which cannot be assigned to a single key: the call raises.
TensorizeChannels(data_vars, assign_coords) ==
  LET group_keys == GetGroupKeys(data_vars)
  IN  IF ~group_keys.ok
      THEN [ok |-> FALSE, error |-> group_keys.error, group_keys |-> <<>>,
            data_vars |-> <<>>, coords |-> <<>>]
      ELSE IF Len(group_keys.keys) = 0
      THEN [ok |-> FALSE, error |-> "TypeError", group_keys |-> <<>>,
            data_vars |-> <<>>, coords |-> <<>>]
      ELSE LET channels == [k \in 1..Len(group_keys.keys) |->
                              ValuesOf(data_vars, group_keys.keys[k])]
               fused == SetItem(data_vars, stem, CombineNested(channels))
           IN  [ok |-> TRUE, error |-> "", group_keys |-> group_keys.keys,
                data_vars |-> DropVars(fused, group_keys.keys),
                coords |-> IF assign_coords THEN group_keys.keys ELSE <<>>]

\* The variable names a dataset of the model may use: channels of the stem
\* (x1, x2, x10, x01), the stem itself, a name with a literal before the match
\* (xx3), one with a digit literal before it (1x2) and one that does not match.
TcNames ==
  { <<"x", "1">>, <<"x", "2">>, <<"x", "1", "0">>, <<"x", "0", "1">>,
    <<"x">>, <<"x", "x", "3">>, <<"1", "x", "2">>, <<"y", "1">> }

\* The arrays a variable may hold: one axis, one value.
TcValues == {[dims |-> <<<<"t", "i", "m", "e">>>>, data |-> <<v>>] : v \in {0, 1}}

TcDatasets ==
  UNION { { [k \in 1..Len(names) |-> [name |-> names[k], values |-> vals[k]]] :
              vals \in [1..Len(names) -> TcValues] } :
          names \in DistinctSeqs(TcNames, MaxVars) }

TcInit ==
  \E d \in TcDatasets, a \in BOOLEAN :
     tc = [pc |-> "call", dataset |-> d, assign_coords |-> a]

TcCall ==
  /\ tc.pc = "call"
  /\ tc' = [pc |-> "done", dataset |-> tc.dataset,
            assign_coords |-> tc.assign_coords,
            result |-> TensorizeChannels(tc.dataset, tc.assign_coords)]
  /\ UNCHANGED <<md, pl, ss, rd, dz, mg, dd>>

(***************************************************************************)
(* MapDict.  A collection is a Python dict: its entries [key, value] in    *)
(* insertion order, the keys distinct.  The transform is any function from *)
(* datasets to outcomes: a transformed dataset, or an exception whose      *)
(* str() is `message`.                                                     *)
(***************************************************************************)
MdKeys ==
  { <<"g", "o", "o", "d">>, <<"b", "a", "d">>, <<"d", "a", "t", "a">>,
    <<"e", "r", "r", "o", "r">> }

\* The datasets of a collection, and what a transform can make of one.
MdValues == {0, 1}

MdReturns == {[raises |-> FALSE, value |-> v, message |-> <<>>] : v \in {0, 1, 2}}

MdRaises == {[raises |-> TRUE, value |-> 0, message |-> <<"n", "o">>]}

MdTransforms == [MdValues -> MdReturns \cup MdRaises]

MdCollections ==
  UNION { { [k \in 1..Len(keys) |-> [key |-> keys[k], value |-> vals[k]]] :
              vals \in [1..Len(keys) -> MdValues] } :
          keys \in DistinctSeqs(MdKeys, MaxKeys) }

DictKeys(d) == {d[k].key : k \in 1..Len(d)}

DictGet(d, key) == d[CHOOSE k \in 1..Len(d) : d[k].key = key].value

\* A plausible slip: out = {key: value}, a new dict at every key.
DictSetAnew(d, key, value) == <<[key |-> key, value |-> value]>>

\* out[key] = value
DictSet(d, key, value) ==
  IF key \in DictKeys(d)
  THEN [k \in 1..Len(d) |-> IF d[k].key = key THEN [key |-> key, value |-> value] ELSE d[k]]
  ELSE Append(d, [key |-> key, value |-> value])

\* A plausible slip: the message is the cause alone.
ErrorMessageWithoutKey(key, e) == e

\* f"{key}: {e}"
ErrorMessage(key, e) == key \o <<":", " ">> \o e

MdInit ==
  \E d \in MdCollections, t \in MdTransforms :
     md = [pc |-> "loop", datasets |-> d, transform |-> t, it |-> 1,
           out |-> <<>>, applied |-> <<>>,
           result |-> [raised |-> FALSE, message |-> <<>>, value |-> <<>>]]

\* One iteration of the loop of MapDict.__call__: the transform is applied to
\* the next entry; what it returns is stored under the key, what it raises is
\* raised again as a RuntimeError that ends the call.
MdIterate ==
  /\ md.pc = "loop"
  /\ md.it <= Len(md.datasets)
  /\ LET key == md.datasets[md.it].key
         dataset == md.datasets[md.it].value
         got == md.transform[dataset]
     IN  IF got.raises
         THEN md' = [md EXCEPT !.pc = "raised",
                               !.applied = Append(@, key),
                               !.result = [raised |-> TRUE,
                                           message |-> ErrorMessage(key, got.message),
                                           value |-> <<>>]]
         ELSE md' = [md EXCEPT !.out = DictSet(@, key, got.value),
                               !.applied = Append(@, key),
                               !.it = @ + 1]
  /\ UNCHANGED <<tc, pl, ss, rd, dz, mg, dd>>

\* return out
MdReturn ==
  /\ md.pc = "loop"
  /\ md.it > Len(md.datasets)
  /\ md' = [md EXCEPT !.pc = "returned",
                      !.result = [raised |-> FALSE, message |-> <<>>, value |-> md.out]]
  /\ UNCHANGED <<tc, pl, ss, rd, dz, mg, dd>>

(***************************************************************************)
(* Pipeline.  Its transforms are any functions from values to outcomes: a  *)
(* value for the next transform, or an exception.  `calls` records every   *)
(* invocation of a transform: which one, and on what.                      *)
(***************************************************************************)
PlValues == {0, 1}

PlOutcomes ==
  {[raises |-> FALSE, value |-> v, message |-> <<>>] : v \in PlValues}
    \cup {[raises |-> TRUE, value |-> 0, message |-> m] : m \in {<<"n", "o">>, <<"b", "a", "d">>}}

PlTransformSet == [PlValues -> PlOutcomes]

RECURSIVE SeqsUpTo(_, _)
SeqsUpTo(S, n) ==
  IF n = 0 THEN {<<>>}
  ELSE LET shorter == SeqsUpTo(S, n - 1)
       IN  shorter \cup {Append(p[1], p[2]) : p \in {q \in shorter \X S : Len(q[1]) = n - 1}}

PlInit ==
  \E ts \in SeqsUpTo(PlTransformSet, MaxTransforms), x \in PlValues :
     pl = [pc |-> "loop", transforms |-> ts, input |-> x, x |-> x, i |-> 1,
           calls |-> <<>>,
           result |-> [raised |-> FALSE, message |-> <<>>, value |-> 0]]

\* A plausible slip: a failure is swallowed and the loop goes on with x as it was.
PipelineStepSwallowing(p) ==
  LET got == p.transforms[p.i][p.x]
      called == Append(p.calls, [index |-> p.i, input |-> p.x])
  IN  IF got.raises
      THEN [p EXCEPT !.calls = called, !.i = @ + 1]
      ELSE [p EXCEPT !.calls = called, !.x = got.value, !.i = @ + 1]

\* x = transform(x), for the next transform of the list: what it raises leaves
\* Pipeline.__call__ as it is.
PipelineStep(p) ==
  LET got == p.transforms[p.i][p.x]
      called == Append(p.calls, [index |-> p.i, input |-> p.x])
  IN  IF got.raises
      THEN [p EXCEPT !.pc = "raised", !.calls = called,
                     !.result = [raised |-> TRUE, message |-> got.message, value |-> 0]]
      ELSE [p EXCEPT !.calls = called, !.x = got.value, !.i = @ + 1]

PlInvoke ==
  /\ pl.pc = "loop"
  /\ pl.i <= Len(pl.transforms)
  /\ pl' = PipelineStep(pl)
  /\ UNCHANGED <<tc, md, ss, rd, dz, mg, dd>>

\* return x
PlReturn ==
  /\ pl.pc = "loop"
  /\ pl.i > Len(pl.transforms)
  /\ pl' = [pl EXCEPT !.pc = "returned",
                      !.result = [raised |-> FALSE, message |-> <<>>, value |-> pl.x]]
  /\ UNCHANGED <<tc, md, ss, rd, dz, mg, dd>>

(***************************************************************************)
(* StandardizeSignalDataset.  The dataset of one signal: its `name`        *)
(* attribute, its data variables (`data`, `error`) on the axis `time`, and *)
(* the names of its coordinates.                                           *)
(***************************************************************************)
S_data == <<"d", "a", "t", "a">>
S_error == <<"e", "r", "r", "o", "r">>
S_time == <<"t", "i", "m", "e">>
S_foo == <<"f", "o", "o">>

\* StandardizeSignalDataset.__init__: the source of the pipeline.
source == <<"s", "r", "c">>

SsNames == {S_time, S_foo, S_data}

\* "_".join(parts)
RECURSIVE join_(_)
join_(parts) ==
  IF Len(parts) = 0 THEN <<>>
  ELSE IF Len(parts) = 1 THEN parts[1]
  ELSE parts[1] \o <<"_">> \o join_(Tail(parts))

\* (array.values == 0).all(): true of an array without values.
AllZero(array) == \A k \in 1..Len(array.data) : array.data[k] = 0

\* squeeze() of one array: an axis of size 1 goes.
SqueezeArray(array) ==
  IF Len(array.dims) = 1 /\ Len(array.data) = 1
  THEN [dims |-> <<>>, data |-> array.data] ELSE array

\* dataset.squeeze(drop=True): the axes of size 1 go, their coordinates with them.
SqueezeDrop(ds) ==
  [ds EXCEPT
     !.data_vars = [k \in 1..Len(ds.data_vars) |->
                      [name |-> ds.data_vars[k].name,
                       values |-> SqueezeArray(ds.data_vars[k].values)]],
     !.coords = IF ds.size = 1 THEN {} ELSE @]

\* The new name of a variable under dataset.rename(new_names).
Renamed(new_names, name) ==
  IF \E k \in 1..Len(new_names) : new_names[k].old = name
  THEN new_names[CHOOSE k \in 1..Len(new_names) : new_names[k].old = name].new
  ELSE name

\* dataset.rename(new_names): ValueError when a name to rename is no variable
\* of the dataset, or when two variables end up with one name.
Rename(ds, new_names) ==
  LET names == SeqRange([k \in 1..Len(ds.data_vars) |-> ds.data_vars[k].name])
      after == [k \in 1..Len(ds.data_vars) |->
                  [name |-> Renamed(new_names, ds.data_vars[k].name),
                   values |-> ds.data_vars[k].values]]
      all == {after[k].name : k \in 1..Len(after)}
  IN  IF \E k \in 1..Len(new_names) : new_names[k].old \notin names \cup ds.coords
      THEN [ok |-> FALSE, error |-> "ValueError", dataset |-> ds]
      ELSE IF Cardinality(all) < Len(after) \/ all \cap ds.coords # {}
      THEN [ok |-> FALSE, error |-> "ValueError", dataset |-> ds]
      ELSE [ok |-> TRUE, error |-> "", dataset |-> [ds EXCEPT !.data_vars = after]]

\* The names StandardizeSignalDataset.__call__ gives the variables.
NewNames(ds, name) ==
  IF HasVar(ds.data_vars, S_error)
  THEN <<[old |-> S_data, new |-> name],
         [old |-> S_error, new |-> join_(<<name, S_error>>)]>>
  ELSE <<[old |-> S_data,
          new |-> IF name = S_time THEN name \o <<"_">> ELSE name]>>

\* StandardizeSignalDataset.__call__
StandardizeSignalDataset(dataset) ==
  LET squeezed == SqueezeDrop(dataset)
      name == squeezed.attrs.name
  IN  IF ~HasVar(squeezed.data_vars, S_error)
      THEN [ok |-> FALSE, error |-> "KeyError", dataset |-> dataset]
      ELSE
        LET dropped == IF AllZero(ValuesOf(squeezed.data_vars, S_error))
                       THEN [squeezed EXCEPT !.data_vars = DropVars(@, <<S_error>>)]
                       ELSE squeezed
            new_names == NewNames(dropped, name)
            renamed == Rename(dropped, new_names)
            attrs == [name |-> source \o <<"/">> \o new_names[1].new]
        IN  IF ~renamed.ok THEN [ok |-> FALSE, error |-> renamed.error, dataset |-> dataset]
            ELSE [ok |-> TRUE, error |-> "",
                  dataset |-> [renamed.dataset EXCEPT
                                 !.attrs = attrs,
                                 !.var_attrs = [variable |-> new_names[1].new,
                                                attrs |-> attrs]]]

\* The arrays on the axis `time` of size n.
TimeArrays(n) == {[dims |-> <<S_time>>, data |-> d] : d \in [1..n -> {0, 1}]}

\* The datasets given to StandardizeSignalDataset: with or without `data`,
\* with or without `error`, with or without a coordinate on the axis.
SsDatasets ==
  UNION { { [attrs |-> [name |-> name], size |-> n, coords |-> coords,
             var_attrs |-> [variable |-> <<>>, attrs |-> [name |-> <<>>]],
             data_vars |-> vs] :
              name \in SsNames, coords \in {{}, {S_time}},
              vs \in {<<>>}
                 \cup {<<[name |-> S_data, values |-> d]>> : d \in TimeArrays(n)}
                 \cup {<<[name |-> S_error, values |-> e]>> : e \in TimeArrays(n)}
                 \cup {<<[name |-> S_data, values |-> d],
                          [name |-> S_error, values |-> e]>> :
                          d \in TimeArrays(n), e \in TimeArrays(n)} } :
          n \in 1..MaxLen }

SsInit == \E d \in SsDatasets : ss = [pc |-> "call", dataset |-> d]

SsCall ==
  /\ ss.pc = "call"
  /\ ss' = [pc |-> "done", dataset |-> ss.dataset,
            result |-> StandardizeSignalDataset(ss.dataset)]
  /\ UNCHANGED <<tc, md, pl, rd, dz, mg, dd>>

(***************************************************************************)
(* RenameDimensions.  A dataset is its attributes (`name`, and `dims` once *)
(* it is recorded), its axes with their sizes in the order of              *)
(* dataset.sizes, the names of its coordinates and the axes of its data    *)
(* variables.  The table of mappings/dim_names.json is an input: for each  *)
(* dataset name it has, the pairs (old axis name, new axis name).          *)
(***************************************************************************)
S_bar == <<"b", "a", "r">>
S_d0 == <<"d", "0">>
S_d1 == <<"d", "1">>
S_channel == <<"c", "h", "a", "n", "n", "e", "l">>

RdDims == {S_d0, S_d1, S_time}

\* The tables the model reads: `foo` renames one axis, `bar` two, and any
\* other name is not in the table.
RdTables ==
  { [n \in {S_foo} |-> <<[old |-> S_d0, new |-> S_time]>>],
    [n \in {S_foo, S_bar} |->
       IF n = S_foo THEN <<[old |-> S_d0, new |-> S_time]>>
       ELSE <<[old |-> S_d0, new |-> S_time], [old |-> S_d1, new |-> S_channel]>>],
    [n \in {S_bar} |-> <<>>] }

DimNames(ds) == {ds.sizes[k].dim : k \in 1..Len(ds.sizes)}

VarNames(ds) == {ds.data_vars[k].name : k \in 1..Len(ds.data_vars)} \cup ds.coords

\* dataset.squeeze(): the axes of size 1 go; their coordinates stay, as scalars.
Squeeze(ds) ==
  LET Kept(a) == a.size # 1
      gone == {ds.sizes[k].dim : k \in {i \in 1..Len(ds.sizes) : ds.sizes[i].size = 1}}
      Stays(d) == d \notin gone
  IN  [ds EXCEPT
         !.sizes = SelectSeq(@, Kept),
         !.data_vars = [k \in 1..Len(ds.data_vars) |->
                          [name |-> ds.data_vars[k].name,
                           dims |-> SelectSeq(ds.data_vars[k].dims, Stays)]]]

\* dataset.rename_dims(dims_dict): ValueError when an old name is no axis of
\* the dataset, or a new name is an axis or a variable of it already.
RenameDims(ds, dims_dict) ==
  LET New(d) == Renamed(dims_dict, d)
  IN  IF \E k \in 1..Len(dims_dict) :
            \/ dims_dict[k].old \notin DimNames(ds)
            \/ dims_dict[k].new \in DimNames(ds) \cup VarNames(ds)
      THEN [ok |-> FALSE, error |-> "ValueError", dataset |-> ds]
      ELSE [ok |-> TRUE, error |-> "",
            dataset |->
              [ds EXCEPT
                 !.sizes = [k \in 1..Len(ds.sizes) |->
                              [dim |-> New(ds.sizes[k].dim), size |-> ds.sizes[k].size]],
                 !.data_vars = [k \in 1..Len(ds.data_vars) |->
                                  [name |-> ds.data_vars[k].name,
                                   dims |-> [j \in 1..Len(ds.data_vars[k].dims) |->
                                               New(ds.data_vars[k].dims[j])]]]]]

\* The loop over dims.items(): a coordinate named like an old axis is renamed
\* by dataset.rename_vars, which raises ValueError when the new name is taken.
RECURSIVE RenameCoords(_, _)
RenameCoords(ds, dims) ==
  IF Len(dims) = 0 THEN [ok |-> TRUE, error |-> "", dataset |-> ds]
  ELSE LET old_name == dims[1].old
           new_name == dims[1].new
       IN  IF old_name \notin ds.coords THEN RenameCoords(ds, Tail(dims))
           ELSE IF new_name \in VarNames(ds) \ {old_name}
           THEN [ok |-> FALSE, error |-> "ValueError", dataset |-> ds]
           ELSE RenameCoords(
                  [ds EXCEPT !.coords = (@ \ {old_name}) \cup {new_name}], Tail(dims))

\* RenameDimensions.__call__
RenameDimensions(dimension_mapping, dataset) ==
  LET name == dataset.attrs.name
      squeezed == Squeeze(dataset)
  IN  IF name \notin DOMAIN dimension_mapping
      THEN [ok |-> TRUE, error |-> "", dataset |-> squeezed]
      ELSE LET dims == dimension_mapping[name]
               renamed == RenameDims(squeezed, dims)
               coords == RenameCoords(renamed.dataset, dims)
           IN  IF ~renamed.ok THEN [ok |-> FALSE, error |-> renamed.error, dataset |-> dataset]
               ELSE IF ~coords.ok THEN [ok |-> FALSE, error |-> coords.error, dataset |-> dataset]
               ELSE [ok |-> TRUE, error |-> "",
                     dataset |->
                       [coords.dataset EXCEPT
                          !.attrs = [name |-> name, has_dims |-> TRUE,
                                     dims |-> [k \in 1..Len(coords.dataset.sizes) |->
                                                 coords.dataset.sizes[k].dim]]]]

RdDatasets ==
  UNION { { [attrs |-> [name |-> n, has_dims |-> FALSE, dims |-> <<>>],
             sizes |-> [k \in 1..Len(ds) |-> [dim |-> ds[k], size |-> sz[k]]],
             coords |-> c,
             data_vars |-> <<[name |-> S_data, dims |-> ds]>>] :
              n \in {S_foo, S_bar}, sz \in [1..Len(ds) -> 1..MaxSize],
              c \in SUBSET SeqRange(ds) } :
          ds \in DistinctSeqs(RdDims, MaxDims) }

NoResult == [ok |-> FALSE, error |-> "not called"]

RdInit ==
  \E d \in RdDatasets, t \in RdTables :
     rd = [pc |-> "first", dimension_mapping |-> t, dataset |-> d,
           first |-> NoResult, second |-> NoResult]

\* RenameDimensions applied to the dataset.
RdFirst ==
  /\ rd.pc = "first"
  /\ LET got == RenameDimensions(rd.dimension_mapping, rd.dataset)
     IN  rd' = [rd EXCEPT !.pc = IF got.ok THEN "second" ELSE "failed", !.first = got]
  /\ UNCHANGED <<tc, md, pl, ss, dz, mg, dd>>

\* RenameDimensions applied again, to what the first application returned.
RdSecond ==
  /\ rd.pc = "second"
  /\ rd' = [rd EXCEPT !.pc = "done",
                      !.second = RenameDimensions(rd.dimension_mapping, rd.first.dataset)]
  /\ UNCHANGED <<tc, md, pl, ss, dz, mg, dd>>

(***************************************************************************)
(* DropZeroDimensions.  A dataset is its coordinates, each on the axis it  *)
(* is named after, and the axes of its data variables; the call reads the  *)
(* values of the coordinates only.                                         *)
(***************************************************************************)
S_gain == <<"g", "a", "i", "n">>
S_image == <<"i", "m", "a", "g", "e">>

\* The axes of a dataset: those of its coordinates and of its data variables.
DzAxes(ds) ==
  UNION ({SeqRange(ds.coords[k].values.dims) : k \in 1..Len(ds.coords)}
           \cup {SeqRange(ds.data_vars[k].dims) : k \in 1..Len(ds.data_vars)})

\* dataset.drop_vars(key), for the name of a coordinate: the coordinate goes,
\* and nothing else.
DropCoord(ds, key) ==
  LET Kept(c) == c.name # key IN [ds EXCEPT !.coords = SelectSeq(@, Kept)]

\* The loop of DropZeroDimensions.__call__ over the coordinates of the input.
RECURSIVE DropZeroFrom(_, _)
DropZeroFrom(ds, coords) ==
  IF Len(coords) = 0 THEN ds
  ELSE IF AllZero(coords[1].values)
       THEN DropZeroFrom(DropCoord(ds, coords[1].name), Tail(coords))
       ELSE DropZeroFrom(ds, Tail(coords))

\* DropZeroDimensions.__call__
DropZeroDimensions(dataset) == DropZeroFrom(dataset, dataset.coords)

\* The coordinates an axis may have: none, or values of a size up to MaxLen.
DzCoordsOf(axis) ==
  {<<>>} \cup
  UNION { { <<[name |-> axis, values |-> [dims |-> <<axis>>, data |-> d]]>> :
              d \in [1..n -> {0, 1}] } : n \in 1..MaxLen }

DzVars ==
  { [name |-> S_data, dims |-> <<S_time>>], [name |-> S_gain, dims |-> <<S_channel>>],
    [name |-> S_image, dims |-> <<S_time, S_channel>>] }

DzDatasets ==
  { [coords |-> ct \o cc, data_vars |-> vs] :
      ct \in DzCoordsOf(S_time), cc \in DzCoordsOf(S_channel),
      vs \in {q \in DistinctSeqs(DzVars, 3) :
                \A i, j \in 1..Len(q) : i < j => StrLess(q[i].name, q[j].name)} }

DzInit == \E d \in DzDatasets : dz = [pc |-> "call", dataset |-> d]

DzCall ==
  /\ dz.pc = "call"
  /\ dz' = [pc |-> "done", dataset |-> dz.dataset,
            result |-> DropZeroDimensions(dz.dataset)]
  /\ UNCHANGED <<tc, md, pl, ss, rd, mg, dd>>

(***************************************************************************)
(* MergeDatasets.  A dataset is its attributes (a dict: entries [key,      *)
(* value]) and its data variables, each with its array on the axis `time`  *)
(* and its own attributes; the axis has no coordinate.                     *)
(***************************************************************************)
S_name == <<"n", "a", "m", "e">>

MgKeys == {S_foo, S_bar, S_gain}

\* The attributes StandardizeSignalDataset leaves on a signal and its variable.
MgAttrs(signal) == <<[key |-> S_name, value |-> source \o <<"/">> \o signal]>>

\* The datasets of the signals: one variable, named after the signal, on the
\* axis `time` of a size up to MaxLen.
MgDatasets ==
  UNION { { [attrs |-> MgAttrs(signal),
             data_vars |-> <<[name |-> signal, attrs |-> MgAttrs(signal),
                              values |-> [dims |-> <<S_time>>,
                                          data |-> [k \in 1..n |-> v]]]>>] :
              signal \in MgKeys, v \in {0, 1} } :
          n \in 1..MaxLen }

MgCollections ==
  UNION { { [k \in 1..Len(keys) |-> [key |-> keys[k], value |-> vals[k]]] :
              vals \in [1..Len(keys) -> MgDatasets] } :
          keys \in DistinctSeqs(MgKeys, MaxMerge) }

\* dataset_dict.values()
DictValues(d) == [k \in 1..Len(d) |-> d[k].value]

\* The sizes the datasets give the axis `axis`.
AxisSizes(datasets, axis) ==
  UNION { {Len(datasets[i].data_vars[j].values.data) :
             j \in {k \in 1..Len(datasets[i].data_vars) :
                      axis \in SeqRange(datasets[i].data_vars[k].values.dims)}} :
          i \in 1..Len(datasets) }

\* All data variables of the datasets, in the order of the datasets.
RECURSIVE AllVars(_)
AllVars(datasets) ==
  IF Len(datasets) = 0 THEN <<>>
  ELSE datasets[1].data_vars \o AllVars(Tail(datasets))

\* The variables of the merged dataset: one for every name, the first of that
\* name (its values and, with combine_attrs="override", its attributes).
RECURSIVE FirstOfEachName(_, _)
FirstOfEachName(variables, seen) ==
  IF Len(variables) = 0 THEN <<>>
  ELSE IF variables[1].name \in seen THEN FirstOfEachName(Tail(variables), seen)
  ELSE <<variables[1]>> \o FirstOfEachName(Tail(variables), seen \cup {variables[1].name})

\* xr.merge(datasets), with its defaults compat="no_conflicts", join="outer"
\* and combine_attrs="override": ValueError when an axis without coordinate
\* has two sizes, MergeError when two variables of one name differ; otherwise
\* the union of the variables, under the attributes of the first dataset.
Merge(datasets) ==
  LET variables == AllVars(datasets)
  IN  IF Cardinality(AxisSizes(datasets, S_time)) > 1
      THEN [ok |-> FALSE, error |-> "ValueError", dataset |-> [attrs |-> <<>>, data_vars |-> <<>>]]
      ELSE IF \E i, j \in 1..Len(variables) :
                 /\ variables[i].name = variables[j].name
                 /\ variables[i].values # variables[j].values
      THEN [ok |-> FALSE, error |-> "MergeError", dataset |-> [attrs |-> <<>>, data_vars |-> <<>>]]
      ELSE [ok |-> TRUE, error |-> "",
            dataset |-> [attrs |-> IF Len(datasets) = 0 THEN <<>> ELSE datasets[1].attrs,
                         data_vars |-> FirstOfEachName(variables, {})]]

\* A plausible slip: the attributes of the merged dataset are left as they are.
KeepAttrs(dataset) == dataset

\* dataset.attrs = {}
ClearAttrs(dataset) == [dataset EXCEPT !.attrs = <<>>]

\* MergeDatasets.__call__
MergeDatasets(dataset_dict) ==
  LET merged == Merge(DictValues(dataset_dict))
  IN  IF ~merged.ok THEN merged
      ELSE [merged EXCEPT !.dataset = ClearAttrs(merged.dataset)]

MgInit == \E d \in MgCollections : mg = [pc |-> "call", dataset_dict |-> d]

MgCall ==
  /\ mg.pc = "call"
  /\ mg' = [pc |-> "done", dataset_dict |-> mg.dataset_dict,
            result |-> MergeDatasets(mg.dataset_dict)]
  /\ UNCHANGED <<tc, md, pl, ss, rd, dz, dd>>

(***************************************************************************)
(* DropDatasets.  `datasets` is the caller's dict, which the loop changes  *)
(* in place; `input` is what it held at the call.  The list of keys is any *)
(* list of strings: a key may be missing from the dict, or listed twice.   *)
(***************************************************************************)
DdKeys == {S_data, S_error, S_foo}

DdValues == {0, 1}

DdCollections ==
  UNION { { [k \in 1..Len(keys) |-> [key |-> keys[k], value |-> vals[k]]] :
              vals \in [1..Len(keys) -> DdValues] } :
          keys \in DistinctSeqs(DdKeys, MaxKeys) }

\* The entries of d other than the one of `key`, in their order.
Without(d, key) == SelectSeq(d, LAMBDA entry : entry.key # key)

\* A plausible slip: datasets.pop(key, None).
DictPopOrNone(d, key) == [raises |-> FALSE, d |-> Without(d, key)]

\* datasets.pop(key): KeyError when the dict does not have the key.
DictPop(d, key) ==
  IF key \in DictKeys(d)
  THEN [raises |-> FALSE, d |-> Without(d, key)]
  ELSE [raises |-> TRUE, d |-> d]

\* DropDatasets(keys) is called on a dict.
DdInit ==
  \E d \in DdCollections, keys \in SeqsUpTo(DdKeys, MaxDrop) :
     dd = [pc |-> "loop", keys |-> keys, input |-> d, datasets |-> d, i |-> 1,
           error |-> ""]

\* One iteration of `for key in self.keys: datasets.pop(key)`.
DdPop ==
  /\ dd.pc = "loop"
  /\ dd.i <= Len(dd.keys)
  /\ LET popped == DictPop(dd.datasets, dd.keys[dd.i])
     IN  dd' = IF popped.raises
               THEN [dd EXCEPT !.pc = "raised", !.error = "KeyError"]
               ELSE [dd EXCEPT !.datasets = popped.d, !.i = dd.i + 1]
  /\ UNCHANGED <<tc, md, pl, ss, rd, dz, mg>>

\* return datasets
DdReturn ==
  /\ dd.pc = "loop"
  /\ dd.i > Len(dd.keys)
  /\ dd' = [dd EXCEPT !.pc = "returned"]
  /\ UNCHANGED <<tc, md, pl, ss, rd, dz, mg>>

InitTensorize == TcInit /\ md = Idle /\ pl = Idle /\ ss = Idle /\ rd = Idle /\ dz = Idle
  /\ mg = Idle /\ dd = Idle

NextTensorize == TcCall

SpecTensorize == InitTensorize /\ [][NextTensorize]_vars

InitMapDict == MdInit /\ tc = Idle /\ pl = Idle /\ ss = Idle /\ rd = Idle /\ dz = Idle
  /\ mg = Idle /\ dd = Idle

NextMapDict == MdIterate \/ MdReturn

SpecMapDict == InitMapDict /\ [][NextMapDict]_vars

InitPipeline == PlInit /\ tc = Idle /\ md = Idle /\ ss = Idle /\ rd = Idle /\ dz = Idle
  /\ mg = Idle /\ dd = Idle

NextPipeline == PlInvoke \/ PlReturn

SpecPipeline == InitPipeline /\ [][NextPipeline]_vars

InitStandardize == SsInit /\ tc = Idle /\ md = Idle /\ pl = Idle /\ rd = Idle /\ dz = Idle
  /\ mg = Idle /\ dd = Idle

NextStandardize == SsCall

SpecStandardize == InitStandardize /\ [][NextStandardize]_vars

InitRename == RdInit /\ tc = Idle /\ md = Idle /\ pl = Idle /\ ss = Idle /\ dz = Idle
  /\ mg = Idle /\ dd = Idle

NextRename == RdFirst \/ RdSecond

SpecRename == InitRename /\ [][NextRename]_vars

InitMerge == MgInit /\ tc = Idle /\ md = Idle /\ pl = Idle /\ ss = Idle /\ rd = Idle
  /\ dz = Idle /\ dd = Idle

NextMerge == MgCall

SpecMerge == InitMerge /\ [][NextMerge]_vars

InitDropDatasets == DdInit /\ tc = Idle /\ md = Idle /\ pl = Idle /\ ss = Idle
  /\ rd = Idle /\ dz = Idle /\ mg = Idle

NextDropDatasets == DdPop \/ DdReturn

SpecDropDatasets == InitDropDatasets /\ [][NextDropDatasets]_vars

InitDropZero == DzInit /\ tc = Idle /\ md = Idle /\ pl = Idle /\ ss = Idle /\ rd = Idle
  /\ mg = Idle /\ dd = Idle

NextDropZero == DzCall

SpecDropZero == InitDropZero /\ [][NextDropZero]_vars

(***************************************************************************)
(* Properties of TensorizeChannels.                                        *)
(***************************************************************************)
TcDone == tc.pc = "done"

TcSelected == {tc.dataset[k].name : k \in {i \in 1..Len(tc.dataset) : re_search(tc.dataset[i].name)}}

\* The same data variables in every order of the dataset's mapping.
TcOrders ==
  {p \in DistinctSeqs(SeqRange(tc.dataset), Len(tc.dataset)) : Len(p) = Len(tc.dataset)}

\* C1: whenever the pattern selects some variables, TensorizeChannels orders
\* them by numeric-aware comparison of their names, and every order of the
\* variables in the input dataset gives the same order of the fused axis.
C1_OrderSameForEveryInputOrder ==
  (TcDone /\ TcSelected # {}) =>
     /\ tc.result.ok
     /\ \A i \in 1..(Len(tc.result.group_keys) - 1) :
           ~KeyLess(ParseDigits(tc.result.group_keys[i + 1]),
                    ParseDigits(tc.result.group_keys[i]))
     /\ \A p \in TcOrders :
           LET other == TensorizeChannels(p, tc.assign_coords)
           IN  other.ok /\ other.group_keys = tc.result.group_keys

\* C2: after a successful call the fused variable `stem` has one slice per
\* selected variable, the i-th slice is the values of the i-th selected
\* variable in the sorted order, and every selected variable of the input is
\* one of the slices: splitting by index gives back every channel.
C2_FusionLossless ==
  (TcDone /\ tc.result.ok) =>
     /\ HasVar(tc.result.data_vars, stem)
     /\ LET fused == ValuesOf(tc.result.data_vars, stem)
            keys == tc.result.group_keys
        IN  /\ fused.dims[1] = dim_name
            /\ \A i \in 1..Len(keys) :
                  /\ HasVar(tc.dataset, keys[i])
                  /\ Slice(fused, Len(keys), i) = ValuesOf(tc.dataset, keys[i])
            /\ \A name \in TcSelected :
                  Cardinality({i \in 1..Len(keys) : keys[i] = name}) = 1

\* Two channels with different values, given in another order than the sorted one.
C2_Witness ==
  /\ TcDone /\ tc.result.ok
  /\ Len(tc.result.group_keys) >= 2
  /\ ValuesOf(tc.dataset, tc.result.group_keys[1])
       # ValuesOf(tc.dataset, tc.result.group_keys[2])
  /\ \E i, j \in 1..Len(tc.dataset) :
        /\ i < j
        /\ tc.dataset[i].name = tc.result.group_keys[2]
        /\ tc.dataset[j].name = tc.result.group_keys[1]

\* C6 as stated: after a successful call no selected variable remains, and
\* every variable the pattern does not select is still there with its values.
C6_EveryOtherVariableKept ==
  (TcDone /\ tc.result.ok) =>
     /\ \A name \in TcSelected : ~HasVar(tc.result.data_vars, name)
     /\ \A k \in 1..Len(tc.dataset) :
           tc.dataset[k].name \notin TcSelected =>
              /\ HasVar(tc.result.data_vars, tc.dataset[k].name)
              /\ ValuesOf(tc.result.data_vars, tc.dataset[k].name) = tc.dataset[k].values

\* C6 amended: after a successful call no selected variable remains, and every
\* variable the pattern does not select, other than one named `stem` (which
\* the fused variable replaces), is still there with its values.
C6_OtherVariablesKeptExceptStem ==
  (TcDone /\ tc.result.ok) =>
     /\ \A name \in TcSelected : ~HasVar(tc.result.data_vars, name)
     /\ \A k \in 1..Len(tc.dataset) :
           (tc.dataset[k].name \notin TcSelected /\ tc.dataset[k].name # stem) =>
              /\ HasVar(tc.result.data_vars, tc.dataset[k].name)
              /\ ValuesOf(tc.result.data_vars, tc.dataset[k].name) = tc.dataset[k].values

\* A successful call on a dataset with two channels and another variable.
C6_Witness ==
  /\ TcDone /\ tc.result.ok
  /\ Cardinality(TcSelected) >= 2
  /\ \E k \in 1..Len(tc.dataset) :
        /\ tc.dataset[k].name \notin TcSelected \cup {stem}
        /\ HasVar(tc.result.data_vars, tc.dataset[k].name)

\* C12: when the pattern selects no variable of the dataset, TensorizeChannels
\* still succeeds: the result has no variable `stem` other than one the input
\* had, and every variable of the input is still there with its values.
C12_ZeroMatchesSucceeds ==
  (TcDone /\ TcSelected = {}) =>
     /\ tc.result.ok
     /\ HasVar(tc.result.data_vars, stem) => HasVar(tc.dataset, stem)
     /\ \A k \in 1..Len(tc.dataset) :
           /\ HasVar(tc.result.data_vars, tc.dataset[k].name)
           /\ ValuesOf(tc.result.data_vars, tc.dataset[k].name) = tc.dataset[k].values

(***************************************************************************)
(* Properties of MapDict.                                                  *)
(***************************************************************************)
\* The entries of the input on which the transform raises.
MdFailing == {k \in 1..Len(md.datasets) : md.transform[md.datasets[k].value].raises}

MdFirstFailing == CHOOSE k \in MdFailing : \A j \in MdFailing : k <= j

MdEnded == md.pc \in {"returned", "raised"}

\* C3: when the transform raises on some key, MapDict ends by raising, in
\* every iteration order; the message holds the key the transform raised on,
\* no collection is returned, the transform was applied to the keys up to
\* that one and to none behind it, and nothing runs after the failure.
C3_FailFastWithKey ==
  /\ (MdEnded /\ MdFailing # {}) => md.pc = "raised"
  /\ md.pc = "raised" =>
        /\ md.it = MdFirstFailing
        /\ md.result.raised
        /\ Contains(md.result.message, md.datasets[md.it].key)
        /\ md.result.value = <<>>
        /\ md.applied = [k \in 1..md.it |-> md.datasets[k].key]
        /\ ~ENABLED MdIterate /\ ~ENABLED MdReturn

\* The transform raised on a key that has keys before it and behind it.
C3_Witness ==
  /\ md.pc = "raised"
  /\ md.it > 1
  /\ md.it < Len(md.datasets)
  /\ md.datasets[md.it].key = <<"b", "a", "d">>

\* C4: when the transform raises on no key, MapDict returns a collection
\* with exactly the keys of the input, and under each key the transform of
\* the input's dataset under that key.
C4_KeysAndValuesOnSuccess ==
  (MdEnded /\ MdFailing = {}) =>
     /\ md.pc = "returned"
     /\ ~md.result.raised
     /\ Len(md.result.value) = Len(md.datasets)
     /\ DictKeys(md.result.value) = DictKeys(md.datasets)
     /\ \A key \in DictKeys(md.datasets) :
           DictGet(md.result.value, key)
             = md.transform[DictGet(md.datasets, key)].value

\* A collection of three datasets returned, one of them changed by the transform.
C4_Witness ==
  /\ md.pc = "returned"
  /\ Len(md.datasets) >= 3
  /\ \E key \in DictKeys(md.datasets) :
        DictGet(md.result.value, key) # DictGet(md.datasets, key)
  /\ \E k1, k2 \in DictKeys(md.datasets) :
        DictGet(md.result.value, k1) # DictGet(md.result.value, k2)

(***************************************************************************)
(* Properties of Pipeline.                                                 *)
(***************************************************************************)
\* What the j-th transform returned on the input it was called on.
PlGot(j) == pl.transforms[j][pl.calls[j].input]

\* C5: the transforms are invoked strictly left to right, the first on the
\* pipeline's input and each later one on what the one before it returned;
\* once a transform has raised no transform is invoked any more, the call
\* ends with that very exception, and a call that returns has invoked every
\* transform.
C5_LeftToRightAndShortCircuit ==
  /\ \A j \in 1..Len(pl.calls) :
        /\ pl.calls[j].index = j
        /\ pl.calls[j].input = IF j = 1 THEN pl.input ELSE PlGot(j - 1).value
        /\ j < Len(pl.calls) => ~PlGot(j).raises
  /\ (Len(pl.calls) > 0 /\ PlGot(Len(pl.calls)).raises) =>
        /\ pl.pc = "raised"
        /\ pl.result.raised
        /\ pl.result.message = PlGot(Len(pl.calls)).message
        /\ ~ENABLED PlInvoke /\ ~ENABLED PlReturn
  /\ pl.pc = "raised" => (Len(pl.calls) > 0 /\ PlGot(Len(pl.calls)).raises)
  /\ pl.pc = "returned" =>
        /\ Len(pl.calls) = Len(pl.transforms)
        /\ ~pl.result.raised
        /\ pl.result.value
             = IF Len(pl.calls) = 0 THEN pl.input ELSE PlGot(Len(pl.calls)).value

\* The second of three transforms raised, on a value the first one changed.
C5_Witness ==
  /\ pl.pc = "raised"
  /\ Len(pl.transforms) = 3
  /\ Len(pl.calls) = 2
  /\ pl.calls[2].input # pl.input

(***************************************************************************)
(* Properties of StandardizeSignalDataset.                                 *)
(***************************************************************************)
SsDone == ss.pc = "done"

\* The canonical name: the `name` attribute, and `time_` for `time`.
SsCanonical ==
  IF ss.dataset.attrs.name = S_time THEN S_time \o <<"_">> ELSE ss.dataset.attrs.name

EndsWith(s, suffix) ==
  Len(s) >= Len(suffix) /\ SubSeq(s, Len(s) - Len(suffix) + 1, Len(s)) = suffix

\* C7, on the datasets that have both `data` and `error`: `data` becomes the
\* canonical name (`time_` for `time`, also when `error` stays); an `error`
\* that is not all zero becomes <canonical>_error, and behind an `error` that
\* is all zero no variable `error` or `*_error` is left.
C7_CanonicalNames ==
  (SsDone /\ HasVar(ss.dataset.data_vars, S_data)
          /\ HasVar(ss.dataset.data_vars, S_error)) =>
     LET out == ss.result.dataset.data_vars
         error == ValuesOf(ss.dataset.data_vars, S_error)
     IN  /\ ss.result.ok
         /\ HasVar(out, SsCanonical)
         /\ ValuesOf(out, SsCanonical).data = ValuesOf(ss.dataset.data_vars, S_data).data
         /\ IF AllZero(error)
            THEN \A k \in 1..Len(out) :
                    out[k].name # S_error /\ ~EndsWith(out[k].name, <<"_">> \o S_error)
            ELSE /\ HasVar(out, SsCanonical \o <<"_">> \o S_error)
                 /\ ValuesOf(out, SsCanonical \o <<"_">> \o S_error).data = error.data

\* C8, on the signals that are not named `time`: the call fails exactly when
\* the dataset has no `data`, whether or not it has an `error`.
C8_FailsExactlyWithoutData ==
  (SsDone /\ ss.dataset.attrs.name # S_time) =>
     (ss.result.ok <=> HasVar(ss.dataset.data_vars, S_data))

(***************************************************************************)
(* Properties of RenameDimensions and DropZeroDimensions.                  *)
(***************************************************************************)
\* C9: whenever one application of RenameDimensions succeeds, a second
\* application to its result succeeds too and returns the same dataset.
C9_Idempotent ==
  rd.pc = "done" => (rd.second.ok /\ rd.second.dataset = rd.first.dataset)

DzCoord(ds, name) == ds.coords[CHOOSE k \in 1..Len(ds.coords) : ds.coords[k].name = name]

DzCoordNames(ds) == {ds.coords[k].name : k \in 1..Len(ds.coords)}

\* C10: after DropZeroDimensions every coordinate that was all zero is gone,
\* and with it its axis and the data variables on that axis alone; every
\* coordinate with a value that is not zero is there as it was.
C10_ZeroAxesGone ==
  dz.pc = "done" =>
    \A k \in 1..Len(dz.dataset.coords) :
       LET coord == dz.dataset.coords[k]
       IN  IF AllZero(coord.values)
           THEN /\ coord.name \notin DzCoordNames(dz.result)
                /\ SeqRange(coord.values.dims) \cap DzAxes(dz.result) = {}
                /\ \A j \in 1..Len(dz.result.data_vars) :
                      SeqRange(dz.result.data_vars[j].dims) # SeqRange(coord.values.dims)
           ELSE /\ coord.name \in DzCoordNames(dz.result)
                /\ DzCoord(dz.result, coord.name) = coord

(***************************************************************************)
(* Properties of MergeDatasets.                                            *)
(***************************************************************************)
MgInputs == DictValues(mg.dataset_dict)

MgInputVars == AllVars(MgInputs)

\* No two datasets of the collection have a variable of the same name.
MgDisjoint ==
  \A i, j \in 1..Len(MgInputVars) : i # j => MgInputVars[i].name # MgInputVars[j].name

\* The result has the variables of all the datasets and no others, no
\* attributes of its own, and every variable with the attributes it had.
MgUnionWithVariableAttrs ==
  /\ mg.result.ok
  /\ {mg.result.dataset.data_vars[k].name : k \in 1..Len(mg.result.dataset.data_vars)}
       = {MgInputVars[k].name : k \in 1..Len(MgInputVars)}
  /\ mg.result.dataset.attrs = <<>>
  /\ \A k \in 1..Len(MgInputVars) :
        \E j \in 1..Len(mg.result.dataset.data_vars) :
           /\ mg.result.dataset.data_vars[j].name = MgInputVars[k].name
           /\ mg.result.dataset.data_vars[j].attrs = MgInputVars[k].attrs

\* C11 as stated: on every collection of datasets with disjoint variable
\* names MergeDatasets returns a dataset with the union of the variables,
\* without dataset attributes, every variable with its own attributes.
C11_MergeOfDisjointVariables ==
  (mg.pc = "done" /\ MgDisjoint) => MgUnionWithVariableAttrs

\* C11 amended: the same, on the collections whose datasets agree on the size
\* of the axis they share; on a collection whose datasets give one axis two
\* sizes MergeDatasets raises.
C11_MergeOfDisjointVariablesOfOneSize ==
  (mg.pc = "done" /\ MgDisjoint) =>
     IF Cardinality(AxisSizes(MgInputs, S_time)) <= 1
     THEN MgUnionWithVariableAttrs
     ELSE ~mg.result.ok

\* Two datasets with different variables and different attributes merged.
C11_Witness ==
  /\ mg.pc = "done" /\ MgDisjoint /\ mg.result.ok
  /\ Len(MgInputs) >= 2
  /\ MgInputs[1].attrs # <<>>
  /\ Len(mg.result.dataset.data_vars) >= 2
  /\ mg.result.dataset.data_vars[1].attrs # mg.result.dataset.data_vars[2].attrs

(***************************************************************************)
(* Properties of DropDatasets.                                             *)
(***************************************************************************)
DdEnded == dd.pc \in {"returned", "raised"}

\* The entries of the input whose key is not among the first n listed keys.
DdInputWithout(n) ==
  SelectSeq(dd.input, LAMBDA entry : entry.key \notin {dd.keys[k] : k \in 1..n})

\* The listed keys that are missing from the input.
DdMissing == {k \in 1..Len(dd.keys) : dd.keys[k] \notin DictKeys(dd.input)}

\* The listed keys that an earlier position lists too.
DdRepeated == {k \in 1..Len(dd.keys) : \E j \in 1..(k - 1) : dd.keys[j] = dd.keys[k]}

\* The call returns the caller's dict, with the entries of the input whose
\* key is not listed, each as it was.
DdReturnsInputMinusKeys ==
  /\ dd.pc = "returned"
  /\ DictKeys(dd.datasets) = DictKeys(dd.input) \ SeqRange(dd.keys)
  /\ dd.datasets = DdInputWithout(Len(dd.keys))

\* The call raises KeyError at a listed key and leaves the caller's dict
\* without the keys listed before that one.
DdRaisesAt(k) ==
  /\ dd.pc = "raised"
  /\ dd.error = "KeyError"
  /\ dd.i = k
  /\ dd.datasets = DdInputWithout(k - 1)
  /\ \A j \in 1..(k - 1) : dd.keys[j] \notin DictKeys(dd.datasets)

\* C13 as stated: on a collection that has every listed key the call returns
\* the input minus the listed keys, every other entry unchanged; when a listed
\* key is missing from the collection the call fails at the first such key,
\* and the keys listed before it are gone from the caller's collection.
C13_DropsListedKeys ==
  DdEnded =>
     IF DdMissing = {}
     THEN DdReturnsInputMinusKeys
     ELSE DdRaisesAt(CHOOSE k \in DdMissing : \A j \in DdMissing : k <= j)

\* C13 amended: the same for a list that names no key twice; a list that names
\* a key twice fails too, at the first key that is missing or repeated, with
\* the keys listed before it gone from the caller's collection.
C13_DropsListedKeysOnce ==
  DdEnded =>
     LET failing == DdMissing \cup DdRepeated
     IN  IF failing = {}
         THEN DdReturnsInputMinusKeys
         ELSE DdRaisesAt(CHOOSE k \in failing : \A j \in failing : k <= j)

\* A call that fails at its second key, the first one removed, other entries left.
C13_Witness ==
  /\ dd.pc = "raised"
  /\ DdRepeated = {}
  /\ dd.i = 2
  /\ dd.keys[1] \in DictKeys(dd.input)
  /\ dd.keys[1] \notin DictKeys(dd.datasets)
  /\ dd.datasets # <<>>

====
